---- MODULE Spec2Model ----
(***************************************************************************)
(* Sensor metrics service (src/main.py): the ingestion handler             *)
(* create_metric, the query resolver query_metrics and the metrics table.  *)
(*                                                                         *)
(* Time is counted in units of 12 hours.  A datetime is a record           *)
(*   [given, wall, aware, off]                                             *)
(* given = FALSE is Python's None; wall is the wall-clock reading; aware   *)
(* says whether tzinfo is set and off is its UTC offset (0 when naive).    *)
(* Values are counted in thousandths, reported values in hundredths.       *)
(***************************************************************************)
EXTENDS Integers, Sequences, FiniteSets, TLC

VARIABLES clock, store, ingestLog, pending, resp

vars == <<clock, store, ingestLog, pending, resp>>

-----------------------------------------------------------------------------
(* Bounds of the model *)

ClockStart == 6
ClockTicks == 1
MaxRows == 2
MaxPending == 2
WindowSpan == 2

(* Program constants *)

Day == 2
MaxRangeDays == 31

MsgStartAfterEnd == "Start date cannot be after end date."
MsgRangeTooLarge == "Query range cannot exceed 1 month (31 days)."
MsgValidation == "request validation error"

Statistics == {"min", "max", "sum", "average"}

Missing == "<missing>"

-----------------------------------------------------------------------------
(* datetime *)

NoDate == [given |-> FALSE, wall |-> 0, aware |-> FALSE, off |-> 0]

MkDate(w, a, o) == [given |-> TRUE, wall |-> w, aware |-> a, off |-> o]

\* datetime.now(timezone.utc) when the clock reads c
UtcNow(c) == MkDate(c, TRUE, 0)

\* d - timedelta(days=1): the wall clock moves, tzinfo is kept
MinusDay(d) == [d EXCEPT !.wall = @ - Day]

\* if d.tzinfo is None: d = d.replace(tzinfo=timezone.utc)
AttachUtc(d) == IF d.aware THEN d ELSE [d EXCEPT !.aware = TRUE, !.off = 0]

\* the instant an aware datetime denotes: what >, <= and - of two aware
\* datetimes work on
Instant(d) == d.wall - d.off

\* What the DateTime column of the SQLite table keeps of a datetime bound to
\* it (a row's timestamp, or a bound of a filter): the wall-clock fields; the
\* column is declared without timezone, tzinfo is not stored and no
\* conversion to UTC takes place.
ToColumn(d) == d.wall

\* What is read back from the column: a naive datetime.
FromColumn(w) == MkDate(w, FALSE, 0)

-----------------------------------------------------------------------------
(* query_metrics: window derivation and validation *)

\* A window that ignores a lone end_date (mutation of DeriveWindow).
DeriveWindowDefaultStart(now, sd, ed) ==
    IF ~sd.given /\ ~ed.given THEN [start |-> MinusDay(now), end |-> now]
    ELSE IF sd.given /\ ~ed.given THEN [start |-> sd, end |-> now]
    ELSE IF ed.given /\ ~sd.given THEN [start |-> MinusDay(now), end |-> ed]
    ELSE [start |-> sd, end |-> ed]

DeriveWindow(now, sd, ed) ==
    IF ~sd.given /\ ~ed.given THEN [start |-> MinusDay(now), end |-> now]
    ELSE IF sd.given /\ ~ed.given THEN [start |-> sd, end |-> now]
    ELSE IF ed.given /\ ~sd.given THEN [start |-> MinusDay(ed), end |-> ed]
    ELSE [start |-> sd, end |-> ed]

NormalizeWindow(w) == [start |-> AttachUtc(w.start), end |-> AttachUtc(w.end)]

\* A validation that rejects a span of exactly 31 days (mutation of
\* ValidateWindow).
ValidateWindowInclusive(w) ==
    IF Instant(w.start) > Instant(w.end) THEN MsgStartAfterEnd
    ELSE IF Instant(w.end) - Instant(w.start) >= MaxRangeDays * Day
         THEN MsgRangeTooLarge
    ELSE "ok"

ValidateWindow(w) ==
    IF Instant(w.start) > Instant(w.end) THEN MsgStartAfterEnd
    ELSE IF Instant(w.end) - Instant(w.start) > MaxRangeDays * Day
         THEN MsgRangeTooLarge
    ELSE "ok"

\* A statistic parameter without its pattern (mutation of StatisticValid).
StatisticUnchecked(stat) == TRUE

\* Query(..., pattern="^(min|max|sum|average)$")
StatisticValid(stat) == stat \in Statistics

-----------------------------------------------------------------------------
(* query_metrics: filters, grouping, aggregation, shaping *)

NoFilter == [given |-> FALSE, items |-> {}]

MkFilter(S) == [given |-> TRUE, items |-> S]

\* "if sensor_ids:" / "if metrics:": None and the empty list are both falsy
Truthy(f) == f.given /\ f.items # {}

\* The WHERE clause: the two IN filters, and the timestamp column compared
\* with the bounds as the column stores them.
RowMatches(r, sids, mts, w) ==
    /\ Truthy(sids) => r.sensor_id \in sids.items
    /\ Truthy(mts) => r.metric_type \in mts.items
    /\ r.timestamp >= ToColumn(w.start)
    /\ r.timestamp <= ToColumn(w.end)

Matched(st, sids, mts, w) ==
    {i \in 1..Len(st) : RowMatches(st[i], sids, mts, w)}

\* GROUP BY metric_type: the groups are those of the matching rows M.
GroupKeys(st, M) == {st[i].metric_type : i \in M}

GroupRows(st, M, g) == {i \in M : st[i].metric_type = g}

RECURSIVE SumValues(_, _)
SumValues(st, I) ==
    IF I = {} THEN 0
    ELSE LET i == CHOOSE j \in I : TRUE
         IN st[i].value + SumValues(st, I \ {i})

MinValue(st, I) == CHOOSE v \in {st[i].value : i \in I} :
                       \A i \in I : v <= st[i].value

MaxValue(st, I) == CHOOSE v \in {st[i].value : i \in I} :
                       \A i \in I : v >= st[i].value

\* stat_func[statistic] over the rows I of a group, as a fraction of
\* thousandths.
Aggregate(stat, st, I) ==
    CASE stat = "min" -> [num |-> MinValue(st, I), den |-> 1]
      [] stat = "max" -> [num |-> MaxValue(st, I), den |-> 1]
      [] stat = "sum" -> [num |-> SumValues(st, I), den |-> 1]
      [] stat = "average" -> [num |-> SumValues(st, I), den |-> Cardinality(I)]

\* round(val, 2): a fraction of thousandths to the nearest hundredth, a tie
\* to the even one.
Round2(q) ==
    LET d == 10 * q.den
        f == q.num \div d
        r == q.num - f * d
    IN  IF 2 * r < d THEN f
        ELSE IF 2 * r > d THEN f + 1
        ELSE IF f % 2 = 0 THEN f ELSE f + 1

RECURSIVE Orderings(_)
Orderings(S) ==
    IF S = {} THEN {<<>>}
    ELSE UNION {{<<x>> \o t : t \in Orderings(S \ {x})} : x \in S}

\* The loop over the result rows: one entry per row whose aggregate is not
\* None (the aggregate of a group is None when it counts no value).  SQL
\* leaves the order of the groups open.
Shape(stat, st, M) ==
    LET keys == {g \in GroupKeys(st, M) : Cardinality(GroupRows(st, M, g)) > 0}
        entry == [g \in keys |->
                    [metric_type |-> g,
                     statistic   |-> stat,
                     value       |-> Round2(Aggregate(stat, st,
                                                      GroupRows(st, M, g)))]]
    IN  {[k \in 1..Len(o) |-> entry[o[k]]] : o \in Orderings(keys)}

QueryResponse(status, detail, read, now, w, body, sids, mts, stat, sd, ed) ==
    [op |-> "query", status |-> status, detail |-> detail, readStore |-> read,
     now |-> now, window |-> w, body |-> body,
     sensor_ids |-> sids, metrics |-> mts, statistic |-> stat,
     start_date |-> sd, end_date |-> ed]

NoWindow == [start |-> NoDate, end |-> NoDate]

\* The responses GET /metrics/query can give when the clock reads c and the
\* table holds st.
QueryResponses(st, c, sids, mts, stat, sd, ed) ==
    IF ~StatisticValid(stat)
    THEN {QueryResponse(422, MsgValidation, FALSE, NoDate, NoWindow, <<>>,
                        sids, mts, stat, sd, ed)}
    ELSE
      LET now == UtcNow(c)
          w   == NormalizeWindow(DeriveWindow(now, sd, ed))
          v   == ValidateWindow(w)
      IN  IF v # "ok"
          THEN {QueryResponse(400, v, FALSE, now, w, <<>>,
                              sids, mts, stat, sd, ed)}
          ELSE IF stat \notin Statistics
          THEN \* no 'result' column was added: row[2] does not exist
               IF Matched(st, sids, mts, w) = {}
               THEN {QueryResponse(200, "", TRUE, now, w, <<>>,
                                   sids, mts, stat, sd, ed)}
               ELSE {QueryResponse(500, "", TRUE, now, w, <<>>,
                                   sids, mts, stat, sd, ed)}
          ELSE {QueryResponse(200, "", TRUE, now, w, b,
                              sids, mts, stat, sd, ed)
                : b \in Shape(stat, st, Matched(st, sids, mts, w))}

QueryMetrics(sids, mts, stat, sd, ed) ==
    /\ resp' \in QueryResponses(store, clock, sids, mts, stat, sd, ed)
    /\ UNCHANGED <<clock, store, ingestLog, pending>>

-----------------------------------------------------------------------------
(* create_metric and the metrics table *)

\* INTEGER PRIMARY KEY of SQLite: one more than the largest id in the table.
NextId(st) ==
    IF Len(st) = 0 THEN 1
    ELSE 1 + (CHOOSE m \in {st[i].id : i \in 1..Len(st)} :
                  \A i \in 1..Len(st) : m >= st[i].id)

\* MetricCreate: sensor_id, metric_type and value are required; timestamp
\* is optional and its default_factory runs while the body is validated.
BodyValid(body) ==
    body.sensor_id # Missing /\ body.metric_type # Missing

ParsedTimestamp(body, c) ==
    CASE body.tsKind = "omitted" -> UtcNow(c)
      [] body.tsKind = "null"    -> NoDate
      [] body.tsKind = "given"   -> body.timestamp

ParsedMetric(body, c) ==
    [sensor_id |-> body.sensor_id, metric_type |-> body.metric_type,
     value |-> body.value, timestamp |-> ParsedTimestamp(body, c),
     tsKind |-> body.tsKind]

\* ts = metric.timestamp or datetime.now(timezone.utc)
ResolvedTimestamp(metric, c) ==
    IF metric.timestamp.given THEN metric.timestamp ELSE UtcNow(c)

\* MetricDB(...), db.add, db.commit: the row as the table holds it.
NewRow(st, metric, c) ==
    [id |-> NextId(st), sensor_id |-> metric.sensor_id,
     metric_type |-> metric.metric_type, value |-> metric.value,
     timestamp |-> ToColumn(ResolvedTimestamp(metric, c))]

\* db.refresh(db_metric) and the MetricResponse made of it.
Returned(row) ==
    [id |-> row.id, sensor_id |-> row.sensor_id,
     metric_type |-> row.metric_type, value |-> row.value,
     timestamp |-> FromColumn(row.timestamp)]

\* What is recorded of an ingest for the properties: the resolved ts, how
\* the body gave the timestamp, and the clock when the handler ran.
LogEntry(metric, c) ==
    [ts |-> ResolvedTimestamp(metric, c), tsKind |-> metric.tsKind,
     handledAt |-> c]

RemoveAt(s, i) == SubSeq(s, 1, i - 1) \o SubSeq(s, i + 1, Len(s))

\* POST /metrics, first half: the body is parsed into a MetricCreate, or
\* rejected with 422.
ParseIngest(body) ==
    IF BodyValid(body)
    THEN /\ Len(pending) < MaxPending
         /\ pending' = Append(pending, ParsedMetric(body, clock))
         /\ UNCHANGED <<clock, store, ingestLog, resp>>
    ELSE /\ resp' = [op |-> "ingest", status |-> 422]
         /\ UNCHANGED <<clock, store, ingestLog, pending>>

\* POST /metrics, second half: create_metric runs on a parsed body.
HandleIngest(i) ==
    /\ i \in 1..Len(pending)
    /\ Len(store) < MaxRows
    /\ LET metric == pending[i]
           row == NewRow(store, metric, clock)
       IN  /\ store' = Append(store, row)
           /\ ingestLog' = Append(ingestLog, LogEntry(metric, clock))
           /\ resp' = [op |-> "ingest", status |-> 201, body |-> Returned(row)]
    /\ pending' = RemoveAt(pending, i)
    /\ UNCHANGED clock

\* The wall clock advances.
Tick(limit) ==
    /\ clock < limit
    /\ clock' = clock + 1
    /\ UNCHANGED <<store, ingestLog, pending, resp>>

-----------------------------------------------------------------------------
(* Inputs *)

Offsets == {0, 1}

NoResponse == [op |-> "none", status |-> 0]

\* Bodies of POST /metrics.
IngestNames ==
    {<<Missing, "temp">>, <<"", "temp">>, <<"s1", "">>, <<"s1", "temp">>}

IngestTimestamps ==
    {MkDate(ClockStart - 1, FALSE, 0), MkDate(ClockStart - 1, TRUE, 1)}

IngestBodies ==
    {[sensor_id |-> n[1], metric_type |-> n[2], value |-> 1234,
      tsKind |-> k, timestamp |-> NoDate]
       : n \in IngestNames, k \in {"omitted", "null"}}
    \cup
    {[sensor_id |-> n[1], metric_type |-> n[2], value |-> 1234,
      tsKind |-> "given", timestamp |-> t]
       : n \in IngestNames, t \in IngestTimestamps}

-----------------------------------------------------------------------------
(* The ingestion path: bodies are parsed, handled in any order, and the    *)
(* clock advances in between.                                              *)

InitIngest ==
    /\ clock = ClockStart
    /\ store = <<>>
    /\ ingestLog = <<>>
    /\ pending = <<>>
    /\ resp = NoResponse

NextIngest ==
    \/ Tick(ClockStart + ClockTicks)
    \/ \E body \in IngestBodies : ParseIngest(body)
    \/ \E i \in 1..MaxPending : HandleIngest(i)

SpecIngest == InitIngest /\ [][NextIngest]_vars

-----------------------------------------------------------------------------
(* The query path over a table filled by earlier ingests.                  *)

\* The table and log after one more ingest, parsed and handled at clock c.
Ingested(h, body, c) ==
    LET metric == ParsedMetric(body, c)
    IN  [store |-> Append(h.store, NewRow(h.store, metric, c)),
         log   |-> Append(h.log, LogEntry(metric, c))]

StoredTimestamps ==
    {MkDate(ClockStart - 3, TRUE, 0), MkDate(ClockStart - 2, TRUE, 1)}

StoredBodies ==
    {[sensor_id |-> s, metric_type |-> m, value |-> v,
      tsKind |-> "omitted", timestamp |-> NoDate]
       : s \in {"s1", "s2"}, m \in {"temp", "hum"}, v \in {1234, 2000}}
    \cup
    {[sensor_id |-> s, metric_type |-> m, value |-> v,
      tsKind |-> "given", timestamp |-> t]
       : s \in {"s1", "s2"}, m \in {"temp", "hum"}, v \in {1234, 2000},
         t \in StoredTimestamps}

\* The tables n or fewer ingests leave, each handled when the clock read
\* ClockStart.
RECURSIVE Histories(_)
Histories(n) ==
    IF n = 0 THEN {[store |-> <<>>, log |-> <<>>]}
    ELSE LET prev == Histories(n - 1)
         IN  prev \cup {Ingested(h, body, ClockStart)
                          : h \in {x \in prev : Len(x.store) = n - 1},
                            body \in StoredBodies}

\* start_date and end_date of the queries.
QueryDates ==
    {<<NoDate, NoDate>>,
     <<MkDate(ClockStart - 3, FALSE, 0), NoDate>>,
     <<MkDate(ClockStart - 1, TRUE, 1), MkDate(ClockStart, TRUE, 1)>>}

InitQuery ==
    /\ clock = ClockStart
    /\ \E h \in Histories(MaxRows) : store = h.store /\ ingestLog = h.log
    /\ pending = <<>>
    /\ resp = NoResponse

NextQuery ==
    \/ Tick(ClockStart + ClockTicks)
    \/ \E sids \in {NoFilter, MkFilter({"s1"})},
          mts \in {NoFilter, MkFilter({"temp"})},
          stat \in Statistics,
          d \in QueryDates :
            QueryMetrics(sids, mts, stat, d[1], d[2])

SpecQuery == InitQuery /\ [][NextQuery]_vars

-----------------------------------------------------------------------------
(* The query path over dates a month apart.                                *)

WindowClockStart == MaxRangeDays * Day + WindowSpan

WindowWalls ==
    (0..WindowSpan)
    \cup ((MaxRangeDays * Day)..(MaxRangeDays * Day + WindowSpan))

WindowDates ==
    {NoDate}
    \cup {MkDate(w, FALSE, 0) : w \in WindowWalls}
    \cup {MkDate(w, TRUE, o) : w \in WindowWalls, o \in Offsets}

WindowBody ==
    [sensor_id |-> "s1", metric_type |-> "temp", value |-> 1234,
     tsKind |-> "omitted", timestamp |-> NoDate]

InitWindow ==
    /\ clock = WindowClockStart
    /\ LET h == Ingested([store |-> <<>>, log |-> <<>>], WindowBody,
                         WindowClockStart)
       IN  store = h.store /\ ingestLog = h.log
    /\ pending = <<>>
    /\ resp = NoResponse

NextWindow ==
    \/ Tick(WindowClockStart + 1)
    \/ \E stat \in {"min", "average", "median"},
          sd \in WindowDates, ed \in WindowDates :
            QueryMetrics(NoFilter, NoFilter, stat, sd, ed)

SpecWindow == InitWindow /\ [][NextWindow]_vars

-----------------------------------------------------------------------------
(* Properties *)

\* The instant a datetime denotes when a naive one is read as UTC.
UtcInstant(d) == Instant(AttachUtc(d))

IsQuery == resp.op = "query"

\* C1: for every query that reaches window derivation, with `now` the one
\* clock reading of the call, the effective window is [now - 24h, now] when
\* no bound is given, [start_date, now] when only start_date is,
\* [end_date - 24h, end_date] when only end_date is, and
\* [start_date, end_date] when both are: a given bound is never replaced.
C1_EffectiveWindow ==
    (IsQuery /\ resp.statistic \in Statistics) =>
        LET sd  == resp.start_date
            ed  == resp.end_date
            now == resp.now.wall
            ws  == Instant(resp.window.start)
            we  == Instant(resp.window.end)
        IN  /\ resp.now.given /\ resp.now.aware /\ resp.now.off = 0
            /\ now \in WindowClockStart..clock
            /\ resp.window.start.aware /\ resp.window.end.aware
            /\ (~sd.given /\ ~ed.given) => (ws = now - Day /\ we = now)
            /\ (sd.given /\ ~ed.given) => (ws = UtcInstant(sd) /\ we = now)
            /\ (~sd.given /\ ed.given) =>
                   (ws = UtcInstant(ed) - Day /\ we = UtcInstant(ed))
            /\ (sd.given /\ ed.given) =>
                   (ws = UtcInstant(sd) /\ we = UtcInstant(ed))

\* A query with only end_date, an end_date months before now, answered.
C1_Witness ==
    /\ IsQuery /\ resp.status = 200
    /\ ~resp.start_date.given /\ resp.end_date.given
    /\ UtcInstant(resp.end_date) < resp.now.wall - MaxRangeDays * Day

\* C2: after window derivation a query fails with "Start date cannot be
\* after end date." exactly when start > end, with "Query range cannot
\* exceed 1 month (31 days)." exactly when end - start is more than 31
\* days, and succeeds otherwise: a span of exactly 31 days succeeds, and so
\* does start = end.
C2_RangeValidation ==
    (IsQuery /\ resp.statistic \in Statistics) =>
        LET ws == Instant(resp.window.start)
            we == Instant(resp.window.end)
        IN  /\ resp.status \in {200, 400}
            /\ (resp.status = 400 /\ resp.detail = MsgStartAfterEnd) <=> ws > we
            /\ (resp.status = 400 /\ resp.detail = MsgRangeTooLarge)
                   <=> we - ws > 31 * Day
            /\ resp.status = 200 <=> (ws <= we /\ we - ws <= 31 * Day)

\* A query over exactly 31 days, both bounds given, answered.
C2_Witness ==
    /\ IsQuery /\ resp.status = 200
    /\ resp.start_date.given /\ resp.end_date.given
    /\ Instant(resp.window.end) - Instant(resp.window.start) = 31 * Day

\* C8: a query whose statistic is none of min, max, sum, average is
\* rejected as a request-validation error whatever its dates are: no
\* window is derived, no range error is given, the store is not read.
C8_InvalidStatisticFirst ==
    (IsQuery /\ resp.statistic \notin {"min", "max", "sum", "average"}) =>
        /\ resp.status = 422
        /\ resp.detail \notin {MsgStartAfterEnd, MsgRangeTooLarge}
        /\ ~resp.readStore
        /\ ~resp.window.start.given /\ ~resp.window.end.given

\* A query for the median whose start_date is after its end_date.
C8_Witness ==
    /\ IsQuery /\ resp.statistic = "median"
    /\ resp.start_date.given /\ resp.end_date.given
    /\ UtcInstant(resp.start_date) > UtcInstant(resp.end_date)

\* The stored readings of metric type g that the query resp answers is to
\* count: those whose timestamp, as the instant the ingest resolved, lies in
\* the window, and that pass the filters given.
Contributing(g) ==
    {i \in 1..Len(store) :
        /\ store[i].metric_type = g
        /\ UtcInstant(ingestLog[i].ts) >= Instant(resp.window.start)
        /\ UtcInstant(ingestLog[i].ts) <= Instant(resp.window.end)
        /\ resp.sensor_ids.given => store[i].sensor_id \in resp.sensor_ids.items
        /\ resp.metrics.given => store[i].metric_type \in resp.metrics.items}

\* C3: the value a successful query reports for a metric type is the
\* selected aggregate (to 2 decimal places) over exactly the stored readings
\* of that type whose timestamp lies in [start_date, end_date] and that pass
\* the sensor and metric filters.
C3_AggregateOverWindow ==
    (IsQuery /\ resp.status = 200) =>
        \A k \in 1..Len(resp.body) :
            LET I == Contributing(resp.body[k].metric_type)
            IN  /\ I # {}
                /\ resp.body[k].value =
                       Round2(Aggregate(resp.statistic, store, I))

\* C4: the result of a successful query has exactly one entry for each
\* metric type with a stored reading matching filter and window, none for
\* any other, and every entry names the requested statistic.
C4_OneEntryPerGroup ==
    (IsQuery /\ resp.status = 200) =>
        LET types == {store[i].metric_type : i \in 1..Len(store)}
        IN  /\ \A g \in types :
                   Cardinality({k \in 1..Len(resp.body) :
                                   resp.body[k].metric_type = g})
                     = IF Contributing(g) = {} THEN 0 ELSE 1
            /\ \A k \in 1..Len(resp.body) :
                   /\ resp.body[k].metric_type \in types
                   /\ resp.body[k].statistic = resp.statistic

\* C9: a query with neither start_date nor end_date at clock reading now
\* leaves out every stored reading timestamped more than 24h before now and
\* takes in every one timestamped within the last 24h that passes the
\* filters.
C9_DefaultWindow ==
    (IsQuery /\ resp.status = 200
       /\ ~resp.start_date.given /\ ~resp.end_date.given) =>
        LET now == resp.now.wall
            Passes(i) ==
                /\ resp.sensor_ids.given =>
                       store[i].sensor_id \in resp.sensor_ids.items
                /\ resp.metrics.given =>
                       store[i].metric_type \in resp.metrics.items
            Recent(g) == {i \in 1..Len(store) :
                            /\ store[i].metric_type = g
                            /\ UtcInstant(ingestLog[i].ts) >= now - Day
                            /\ UtcInstant(ingestLog[i].ts) <= now
                            /\ Passes(i)}
            Entries(g) == {k \in 1..Len(resp.body) :
                              resp.body[k].metric_type = g}
        IN  \A g \in {store[i].metric_type : i \in 1..Len(store)} :
                IF Recent(g) = {} THEN Entries(g) = {}
                ELSE \E k \in Entries(g) :
                        resp.body[k].value =
                            Round2(Aggregate(resp.statistic, store, Recent(g)))

\* C5: each successful ingest adds exactly one reading, leaves the readings
\* stored before unchanged, gives the new one an id greater than every
\* earlier id, and returns that id and the resolved timestamp.
C5_IngestAppendsOne ==
    [][store' # store =>
         LET n == Len(store')
         IN  /\ n = Len(store) + 1
             /\ SubSeq(store', 1, Len(store)) = store
             /\ \A i \in 1..Len(store) : store'[n].id > store[i].id
             /\ resp'.op = "ingest" /\ resp'.status = 201
             /\ resp'.body.id = store'[n].id
             /\ UtcInstant(resp'.body.timestamp) = UtcInstant(ingestLog'[n].ts)
      ]_vars

\* C6: an ingest with an empty sensor_id or metric_type is rejected and
\* appends no row.
C6_EmptyNamesRejected ==
    /\ \A i \in 1..Len(store) :
           store[i].sensor_id # "" /\ store[i].metric_type # ""
    /\ (resp.op = "ingest" /\ resp.status = 201) =>
           (resp.body.sensor_id # "" /\ resp.body.metric_type # "")

\* C7: a reading ingested without a timestamp is stored with the clock
\* reading at the moment the handler ran.
C7_DefaultAtHandling ==
    \A i \in 1..Len(store) :
        ingestLog[i].tsKind = "omitted" =>
            store[i].timestamp = ingestLog[i].handledAt

\* C10: every stored reading has its five fields, and its timestamp, read
\* as UTC, is the instant the ingest gave: a naive one as that wall clock
\* in UTC, an aware one as the same instant.
C10_StoredAsUtcInstant ==
    \A i \in 1..Len(store) :
        /\ DOMAIN store[i] =
               {"id", "sensor_id", "metric_type", "value", "timestamp"}
        /\ ingestLog[i].tsKind = "given" =>
               store[i].timestamp = UtcInstant(ingestLog[i].ts)

====
